---- MODULE Spec2Model ----
(***************************************************************************)
(* Model of nginx_push_stream_exporter: the exporter's startup (flag       *)
(* default, filterMetrics), and Exporter.Collect / Exporter.scrape run by  *)
(* concurrent collectors against one Exporter, for both pushstream builds  *)
(* found in the repository (int64 fields, string fields).                  *)
(*                                                                         *)
(* A Go string is written as a sequence of pieces (TLA+ strings); Text      *)
(* gives its characters, and everything the program does to a string       *)
(* (compare, sort, split, parse) is done on the characters.  Map keys and  *)
(* struct tags, which the program only compares with its own literals,     *)
(* are TLA+ strings.                                                       *)
(***************************************************************************)
EXTENDS Integers, Sequences, FiniteSets, TLC

VARIABLES
    schema,            \* which pushstream package the binary was built with
    defaultFields,     \* default of -nginx.metric-fields: pushStreamMetrics.String()
    nginxMetricFields, \* value of -nginx.metric-fields after flag.Parse
    pcMain,            \* position of main()
    exporterMetrics,   \* Exporter.pushStreamMetrics (the selected map)
    mutex,             \* Exporter.mutex: 0 = unlocked, else the collector holding it
    totalScrapes,      \* Exporter.totalScrapes (counter value)
    pc,                \* per collector: position inside Collect
    calls,             \* per collector: number of Collect calls made so far
    frame,             \* per collector: locals of the running scrape
    ch                 \* per collector: samples sent on the channel of the running Collect

vars == <<schema, defaultFields, nginxMetricFields, pcMain, exporterMetrics,
          mutex, totalScrapes, pc, calls, frame, ch>>

(***************************************************************************)
(* Bounds                                                                  *)
(***************************************************************************)
NumCollectors == 2
MaxCalls == 2
MaxInfos == 2
MaxVal == 1
MaxPieces == 3

Collectors == 1..NumCollectors


(***************************************************************************)
(* Strings                                                                 *)
(***************************************************************************)
\* The characters of a piece; a piece not listed is one character.
Chars(s) ==
    CASE s = "channels" -> <<"c","h","a","n","n","e","l","s">>
      [] s = "subscribers" -> <<"s","u","b","s","c","r","i","b","e","r","s">>
      [] s = "published_messages" ->
            <<"p","u","b","l","i","s","h","e","d","_","m","e","s","s","a","g","e","s">>
      [] s = "stored_messages" ->
            <<"s","t","o","r","e","d","_","m","e","s","s","a","g","e","s">>
      [] s = "subscribers_total" ->
            <<"s","u","b","s","c","r","i","b","e","r","s","_","t","o","t","a","l">>
      [] s = "Channels" -> <<"C","h","a","n","n","e","l","s">>
      [] s = "bogus_metric" -> <<"b","o","g","u","s","_","m","e","t","r","i","c">>
      [] s = "not-a-number" -> <<"n","o","t","-","a","-","n","u","m","b","e","r">>
      [] s = "all" -> <<"a","l","l">>
      [] s = "" -> <<>>
      [] OTHER -> <<s>>

\* The characters of a string.
RECURSIVE Text(_)
Text(str) == IF str = <<>> THEN <<>> ELSE Chars(Head(str)) \o Text(Tail(str))

\* Byte order of the characters that occur (ASCII).
ByteOrder ==
    <<" ", "+", ",", "-", "0","1","2","3","4","5","6","7","8","9",
      "C", "_",
      "a","b","c","d","e","f","g","h","i","j","k","l","m",
      "n","o","p","q","r","s","t","u","v","w","x","y","z">>

Byte(c) == CHOOSE i \in 1..Len(ByteOrder) : ByteOrder[i] = c

\* Go's < on strings: bytewise lexicographic.
RECURSIVE StrLess(_, _)
StrLess(a, b) ==
    IF b = <<>> THEN FALSE
    ELSE IF a = <<>> THEN TRUE
    ELSE IF Byte(Head(a)) # Byte(Head(b)) THEN Byte(Head(a)) < Byte(Head(b))
    ELSE StrLess(Tail(a), Tail(b))

\* sort.Strings: insertion of x into an ascending sequence, then the sort.
RECURSIVE InsertSorted(_, _)
InsertSorted(x, s) ==
    IF s = <<>> THEN <<x>>
    ELSE IF StrLess(Text(Head(s)), Text(x)) THEN <<Head(s)>> \o InsertSorted(x, Tail(s))
    ELSE <<x>> \o s

RECURSIVE SortStrings(_)
SortStrings(s) ==
    IF s = <<>> THEN <<>> ELSE InsertSorted(Head(s), SortStrings(Tail(s)))

\* strings.Join(s, sep)
RECURSIVE Join(_, _)
Join(s, sep) ==
    IF s = <<>> THEN <<>>
    ELSE IF Len(s) = 1 THEN s[1]
    ELSE s[1] \o sep \o Join(Tail(s), sep)

\* strings.Split(str, ",") for a one-character separator: n separators give
\* n+1 tokens, empty tokens included.
RECURSIVE SplitFrom(_, _, _)
SplitFrom(str, sep, cur) ==
    IF str = <<>> THEN <<cur>>
    ELSE IF Head(str) = sep THEN <<cur>> \o SplitFrom(Tail(str), sep, <<>>)
    ELSE SplitFrom(Tail(str), sep, Append(cur, Head(str)))

Split(str, sep) == SplitFrom(str, sep, <<>>)

Range(s) == {s[i] : i \in 1..Len(s)}

\* All orders in which a Go range can visit the keys of a map.
KeyOrders(keys) ==
    {o \in [1..Cardinality(keys) -> keys] : Range(o) = keys}

(***************************************************************************)
(* Metric catalog                                                          *)
(***************************************************************************)
namespace == "nginx"

nginxLabelNames == <<"channel">>

\* prometheus.NewDesc(BuildFQName(namespace, "push_stream", metricName), ...)
newPushStreamMetrics(metricName) ==
    [namespace |-> namespace, subsystem |-> "push_stream", name |-> metricName,
     variableLabels |-> nginxLabelNames]

CatalogKeys ==
    {"channels", "subscribers", "published_messages", "stored_messages",
     "subscribers_total"}

pushStreamMetrics == [k \in CatalogKeys |-> newPushStreamMetrics(k)]

nginxUp ==
    [namespace |-> namespace, subsystem |-> "", name |-> "up",
     variableLabels |-> <<>>]

totalScrapesDesc ==
    [namespace |-> namespace, subsystem |-> "", name |-> "exporter_total_scrapes",
     variableLabels |-> <<>>]

\* metrics.String without the sort.
StringUnsorted(m, order) ==
    Join([i \in 1..Len(order) |-> <<order[i]>>], <<",">>)

\* metrics.String with the map visited in the given order.
String(m, order) ==
    Join(SortStrings([i \in 1..Len(order) |-> <<order[i]>>]), <<",">>)

(***************************************************************************)
(* filterMetrics                                                           *)
(***************************************************************************)
\* strings.TrimSpace on the blanks that occur
RECURSIVE TrimLeft(_)
TrimLeft(s) == IF s # <<>> /\ Head(s) = " " THEN TrimLeft(Tail(s)) ELSE s

filterMetricsTrimmed(filter) ==
    IF Len(Text(filter)) = 0 THEN <<>>
    ELSE LET selected == {TrimLeft(t) : t \in Range(Split(Text(filter), ","))}
             fields == {f \in DOMAIN pushStreamMetrics : Chars(f) \in selected}
         IN  [f \in fields |-> pushStreamMetrics[f]]

filterMetrics(filter) ==
    IF Len(Text(filter)) = 0 THEN <<>>
    ELSE LET selected == Range(Split(Text(filter), ","))
             fields == {f \in DOMAIN pushStreamMetrics : Chars(f) \in selected}
         IN  [f \in fields |-> pushStreamMetrics[f]]

(***************************************************************************)
(* Response bodies (JSON) and the values json.Decode stores                *)
(***************************************************************************)
JNum(n) == [t |-> "number", n |-> n, s |-> <<>>]
JStr(s) == [t |-> "string", n |-> 0, s |-> s]

GoInt(i) == [kind |-> "int64", i |-> i, s |-> <<>>]
GoString(s) == [kind |-> "string", i |-> 0, s |-> s]

Digits == <<"0","1","2","3","4","5","6","7","8","9">>

IsDigit(c) == \E d \in 1..10 : Digits[d] = c

DigitVal(c) == (CHOOSE d \in 1..10 : Digits[d] = c) - 1

\* strconv.Itoa for n >= 0: how a string-schema server writes a count.
RECURSIVE Itoa(_)
Itoa(n) ==
    IF n < 10 THEN <<Digits[n + 1]>>
    ELSE Itoa(n \div 10) \o <<Digits[(n % 10) + 1]>>

RECURSIVE DigitsValue(_, _)
DigitsValue(s, acc) ==
    IF s = <<>> THEN acc ELSE DigitsValue(Tail(s), 10 * acc + DigitVal(Head(s)))

\* strconv.Atoi: optional sign, then one or more decimal digits.
Atoi(str) ==
    LET s == Text(str)
        signed == s # <<>> /\ Head(s) \in {"+", "-"}
        body == IF signed THEN Tail(s) ELSE s
        ok == body # <<>> /\ \A i \in 1..Len(body) : IsDigit(body[i])
        n == IF ok THEN DigitsValue(body, 0) ELSE 0
    IN  [err |-> ~ok, n |-> IF signed /\ Head(s) = "-" THEN 0 - n ELSE n]

\* float64(int64): exact for every count below 2^53, which the bounds stay under.
float64(i) == i

\* A response body: text that is not JSON, or a stats object.
Malformed == [valid |-> FALSE, channels |-> JNum(0), infos |-> <<>>]

Object(channels, infos) == [valid |-> TRUE, channels |-> channels, infos |-> infos]

\* The zero PushStream value NewPushStream returns.
NewPushStream(sch) ==
    [Channels |-> IF sch = "int64" THEN GoInt(0) ELSE GoString(<<>>),
     Infos |-> [kind |-> "[]*Channel", elems |-> <<>>]]

\* json into an int64 field: a JSON number is stored, a JSON string is an
\* UnmarshalTypeError and leaves the zero value.
IntoInt64(v) ==
    IF v.t = "number" THEN [err |-> FALSE, v |-> GoInt(v.n)]
    ELSE [err |-> TRUE, v |-> GoInt(0)]

\* json into a string field: a JSON string is stored, a JSON number is an
\* UnmarshalTypeError and leaves the zero value.
IntoString(v) ==
    IF v.t = "string" THEN [err |-> FALSE, v |-> GoString(v.s)]
    ELSE [err |-> TRUE, v |-> GoString(<<>>)]

\* The count fields of part_000 are int64, those of part_001 are string.
IntoCount(sch, v) == IF sch = "int64" THEN IntoInt64(v) ELSE IntoString(v)

\* A decoder that takes a numeric string for a number and anything else for 0.
DecodeLenient(sch, body) ==
    IF ~body.valid
    THEN [err |-> TRUE, ps |-> NewPushStream(sch)]
    ELSE LET lax(v) == IF v.t = "number" THEN GoInt(v.n) ELSE GoInt(Atoi(v.s).n)
         IN [err |-> FALSE,
             ps |-> [Channels |-> lax(body.channels),
                     Infos |-> [kind |-> "[]*Channel",
                                elems |-> [j \in 1..Len(body.infos) |->
                                   [Channel |-> GoString(body.infos[j].channel),
                                    PublishedMessages |-> lax(body.infos[j].published_messages),
                                    StoredMessages |-> lax(body.infos[j].stored_messages),
                                    Subscribers |-> lax(body.infos[j].subscribers)]]]]]

\* json.NewDecoder(body).Decode(&ps): the first type error is returned after
\* the rest of the object has been stored.
Decode(sch, body) ==
    IF ~body.valid
    THEN [err |-> TRUE, ps |-> NewPushStream(sch)]
    ELSE LET top == IntoCount(sch, body.channels)
             info(j) ==
                 LET o == body.infos[j]
                     pm == IntoCount(sch, o.published_messages)
                     sm == IntoCount(sch, o.stored_messages)
                     su == IntoCount(sch, o.subscribers)
                 IN  [err |-> pm.err \/ sm.err \/ su.err,
                      v |-> [Channel |-> GoString(o.channel),
                             PublishedMessages |-> pm.v,
                             StoredMessages |-> sm.v,
                             Subscribers |-> su.v]]
         IN  [err |-> top.err \/ \E j \in 1..Len(body.infos) : info(j).err,
              ps |-> [Channels |-> top.v,
                      Infos |-> [kind |-> "[]*Channel",
                                 elems |-> [j \in 1..Len(body.infos) |-> info(j).v]]]]

\* Struct fields in declaration order, with their json tags.
PushStreamFields ==
    <<[name |-> "Channels", tag |-> "channels"],
      [name |-> "Infos", tag |-> "infos"]>>

ChannelFieldsSwapped ==
    <<[name |-> "Channel", tag |-> "channel"],
      [name |-> "PublishedMessages", tag |-> "stored_messages"],
      [name |-> "StoredMessages", tag |-> "published_messages"],
      [name |-> "Subscribers", tag |-> "subscribers"]>>

ChannelFields ==
    <<[name |-> "Channel", tag |-> "channel"],
      [name |-> "PublishedMessages", tag |-> "published_messages"],
      [name |-> "StoredMessages", tag |-> "stored_messages"],
      [name |-> "Subscribers", tag |-> "subscribers"]>>

(***************************************************************************)
(* Exporter.scrape, lines 172-213: the walk over the decoded value         *)
(***************************************************************************)
\* The nil *prometheus.Desc.
Nil == [namespace |-> "", subsystem |-> "", name |-> "<nil>", variableLabels |-> <<>>]

\* m[key] of a Go map: nil for a missing key.
Lookup(m, key) == IF key \in DOMAIN m THEN m[key] ELSE Nil

\* The walk's running state: samples sent so far, the local subscribersTotal,
\* and whether a panic has ended the walk.
StartWalk == [out |-> <<>>, subscribersTotal |-> 0, panicked |-> FALSE]

Panic(acc) == [acc EXCEPT !.panicked = TRUE]

\* ch <- prometheus.MustNewConstMetric(desc, GaugeValue, value, labelValues...):
\* a nil desc is dereferenced and a wrong number of label values is an error;
\* both panic, and nothing in the program recovers.
SendConstMetric(acc, desc, value, labelValues) ==
    IF desc = Nil THEN Panic(acc)
    ELSE IF Len(labelValues) # Len(desc.variableLabels) THEN Panic(acc)
    ELSE [acc EXCEPT !.out = Append(@, [desc |-> desc, value |-> value,
                                        labels |-> labelValues])]

\* Lines 188-206 for field e of one info.  reflect.Value.Int panics on a
\* value that is not an integer kind.
InfoFieldStep(acc, key, val, info, e) ==
    LET f == ChannelFields[e]
        v == info[f.name]
        a1 == IF key # f.tag THEN acc
              ELSE IF v.kind # "int64" THEN Panic(acc)
              ELSE SendConstMetric(acc, val, float64(v.i), <<info.Channel.s>>)
    IN  IF a1.panicked THEN a1
        ELSE IF key = "subscribers_total" /\ f.tag = "subscribers"
        THEN CASE v.kind = "string" ->
                    LET r == Atoi(v.s)
                    IN  IF ~r.err
                        THEN [a1 EXCEPT !.subscribersTotal = @ + r.n]
                        ELSE a1
               [] v.kind = "int64" -> [a1 EXCEPT !.subscribersTotal = @ + v.i]
               [] OTHER -> a1
        ELSE a1

RECURSIVE InfoFieldsLoop(_, _, _, _, _)
InfoFieldsLoop(acc, key, val, info, e) ==
    IF acc.panicked \/ e > Len(ChannelFields) THEN acc
    ELSE InfoFieldsLoop(InfoFieldStep(acc, key, val, info, e), key, val, info, e + 1)

RECURSIVE InfosLoop(_, _, _, _, _)
InfosLoop(acc, key, val, infos, j) ==
    IF acc.panicked \/ j > Len(infos) THEN acc
    ELSE InfosLoop(InfoFieldsLoop(acc, key, val, infos[j], 1), key, val, infos, j + 1)

\* Lines 176-209 for field i of the PushStream value: the type switch.
PushStreamFieldStep(acc, key, val, ps, i) ==
    LET f == PushStreamFields[i]
        v == ps[f.name]
    IN  CASE v.kind = "int64" ->
                IF key = f.tag
                THEN SendConstMetric(acc, val, float64(v.i), << <<"all">> >>)
                ELSE acc
          [] v.kind = "[]*Channel" -> InfosLoop(acc, key, val, ps.Infos.elems, 1)
          [] OTHER -> acc

RECURSIVE PushStreamFieldsLoop(_, _, _, _, _)
PushStreamFieldsLoop(acc, key, val, ps, i) ==
    IF acc.panicked \/ i > Len(PushStreamFields) THEN acc
    ELSE PushStreamFieldsLoop(PushStreamFieldStep(acc, key, val, ps, i),
                              key, val, ps, i + 1)

\* Line 174: range over e.pushStreamMetrics, visited in the given order.
RECURSIVE KeysLoop(_, _, _, _, _)
KeysLoop(acc, m, order, ps, k) ==
    IF acc.panicked \/ k > Len(order) THEN acc
    ELSE KeysLoop(PushStreamFieldsLoop(acc, order[k], m[order[k]], ps, 1),
                  m, order, ps, k + 1)

\* Lines 172-213.
ExtractSamples(m, order, ps) ==
    LET acc == KeysLoop(StartWalk, m, order, ps, 1)
    IN  IF acc.panicked THEN acc
        ELSE SendConstMetric(acc, Lookup(m, "subscribers_total"),
                             float64(acc.subscribersTotal), << <<"all">> >>)

(***************************************************************************)
(* Inputs: flag values and response bodies                                 *)
(***************************************************************************)
\* How a server of either version writes a count.
Encode(enc, n) == IF enc = "number" THEN JNum(n) ELSE JStr(Itoa(n))

\* One entry of infos: s subscribers, with message counts that differ from
\* s and from each other.
Info(enc, c, s) ==
    [channel |-> c,
     published_messages |-> Encode(enc, s + 2),
     stored_messages |-> Encode(enc, s + 1),
     subscribers |-> Encode(enc, s)]

\* Channel "a" with every subscriber count, channel "b" with the largest.
Infos(enc) ==
    {Info(enc, <<"a">>, s) : s \in 0..MaxVal} \cup {Info(enc, <<"b">>, MaxVal)}

InfoSeqs(enc) == UNION {[1..n -> Infos(enc)] : n \in 0..MaxInfos}

\* Top-level channel counts: none, and one that no other count of a body and
\* no length of infos equals.
ChannelCounts == {0, MaxVal + MaxInfos + 3}

\* Bodies whose counts are all numbers or all decimal strings.
WellFormed(enc) ==
    {Object(Encode(enc, n), infos) : n \in ChannelCounts, infos \in InfoSeqs(enc)}

\* The same, with one entry's subscribers a string that is no number.
OneBadSubscribers(enc) ==
    UNION {{[b EXCEPT !.infos[j].subscribers = JStr(<<"not-a-number">>)] :
              j \in 1..Len(b.infos)} : b \in WellFormed(enc)}

\* The same, with the top-level count a string that is no number.
BadChannels(enc) ==
    {[b EXCEPT !.channels = JStr(<<"not-a-number">>)] : b \in WellFormed(enc)}

Encodings == {"number", "string"}

Bodies ==
    {Malformed} \cup OneBadSubscribers("string")
    \cup UNION {WellFormed(enc) \cup BadChannels(enc) : enc \in Encodings}

\* A few bodies for the runs with several collectors.
FewBodies ==
    {Malformed}
    \cup UNION {{Object(Encode(enc, 1), <<>>),
                 Object(Encode(enc, MaxVal), <<Info(enc, <<"a">>, MaxVal)>>),
                 Object(JStr(<<"not-a-number">>), <<>>)} : enc \in Encodings}

\* Every selection of catalog keys, written the way String writes it.
RECURSIVE SeqOfSet(_)
SeqOfSet(S) ==
    IF S = {} THEN <<>>
    ELSE LET x == CHOOSE y \in S : TRUE IN <<x>> \o SeqOfSet(S \ {x})

KeySelections ==
    {Join(SortStrings(SeqOfSet({<<k>> : k \in K})), <<",">>) : K \in SUBSET CatalogKeys}

\* Selections with an unknown key, another case, or a blank.
OddSelections ==
    {<<"bogus_metric", ",", "subscribers_total">>,
     <<"subscribers_total", ",", " ", "channels">>}

\* Flag values of up to MaxPieces pieces.
Pieces == CatalogKeys \cup {",", " ", "Channels", "bogus_metric"}

PieceStrings == UNION {[1..n -> Pieces] : n \in 0..MaxPieces}

(***************************************************************************)
(* main                                                                    *)
(***************************************************************************)
NoFrame == [err |-> FALSE, body |-> Malformed, jsonError |-> FALSE, up |-> 0]

\* Lines 240-249: the flag's default is pushStreamMetrics.String(); flag.Parse
\* leaves it or stores the value given on the command line.
InitWith(given) ==
    /\ schema \in {"int64", "string"}
    /\ \E order \in KeyOrders(DOMAIN pushStreamMetrics) :
          defaultFields = String(pushStreamMetrics, order)
    /\ nginxMetricFields \in {defaultFields} \cup given
    /\ pcMain = "parsed"
    /\ exporterMetrics = <<>>
    /\ mutex = 0
    /\ totalScrapes = 0
    /\ pc = [p \in Collectors |-> "idle"]
    /\ calls = [p \in Collectors |-> 0]
    /\ frame = [p \in Collectors |-> NoFrame]
    /\ ch = [p \in Collectors |-> <<>>]

\* Lines 253-273: filterMetrics, NewExporter, MustRegister, ListenAndServe.
Main ==
    /\ pcMain = "parsed"
    /\ exporterMetrics' = filterMetrics(nginxMetricFields)
    /\ pcMain' = "serving"
    /\ UNCHANGED <<schema, defaultFields, nginxMetricFields, mutex, totalScrapes,
                   pc, calls, frame, ch>>

(***************************************************************************)
(* Exporter.Collect                                                        *)
(***************************************************************************)
\* A pull of the metrics page calls Collect with a fresh channel.
Call(p, maxCalls) ==
    /\ pcMain = "serving"
    /\ pc[p] = "idle"
    /\ calls[p] < maxCalls
    /\ calls' = [calls EXCEPT ![p] = @ + 1]
    /\ pc' = [pc EXCEPT ![p] = "lock"]
    /\ UNCHANGED <<schema, defaultFields, nginxMetricFields, pcMain, exporterMetrics,
                   mutex, totalScrapes, frame, ch>>

\* A read lock in place of the write lock.
RLock(p) ==
    /\ pcMain = "serving"
    /\ pc[p] = "lock"
    /\ mutex' = p
    /\ pc' = [pc EXCEPT ![p] = "scrape"]
    /\ UNCHANGED <<schema, defaultFields, nginxMetricFields, pcMain, exporterMetrics,
                   totalScrapes, calls, frame, ch>>

\* Line 122: e.mutex.Lock()
Lock(p) ==
    /\ pcMain = "serving"
    /\ pc[p] = "lock"
    /\ mutex = 0
    /\ mutex' = p
    /\ pc' = [pc EXCEPT ![p] = "scrape"]
    /\ UNCHANGED <<schema, defaultFields, nginxMetricFields, pcMain, exporterMetrics,
                   totalScrapes, calls, frame, ch>>

\* Lines 152-162: count the scrape and fetch; a fetch error (network, timeout,
\* status outside 2xx) returns up = 0.
ScrapeFetch(p, bodies) ==
    /\ pcMain = "serving"
    /\ pc[p] = "scrape"
    /\ totalScrapes' = totalScrapes + 1
    /\ \/ /\ frame' = [frame EXCEPT ![p] = [NoFrame EXCEPT !.err = TRUE]]
          /\ pc' = [pc EXCEPT ![p] = "sendUp"]
       \/ \E body \in bodies :
             /\ frame' = [frame EXCEPT ![p] = [NoFrame EXCEPT !.body = body]]
             /\ pc' = [pc EXCEPT ![p] = "decode"]
    /\ UNCHANGED <<schema, defaultFields, nginxMetricFields, pcMain, exporterMetrics,
                   mutex, calls, ch>>

\* Lines 164-215: decode; on an error return up = 0; else walk the value and
\* send the samples.  A panic unwinds Collect (the deferred Unlock runs) and,
\* recovered nowhere, ends the program.
ScrapeExtract(p) ==
    /\ pcMain = "serving"
    /\ pc[p] = "decode"
    /\ LET d == Decode(schema, frame[p].body)
       IN  IF d.err
           THEN /\ frame' = [frame EXCEPT ![p].jsonError = TRUE]
                /\ pc' = [pc EXCEPT ![p] = "sendUp"]
                /\ UNCHANGED <<ch, mutex, pcMain>>
           ELSE \E order \in KeyOrders(DOMAIN exporterMetrics) :
                  LET r == ExtractSamples(exporterMetrics, order, d.ps)
                  IN  /\ ch' = [ch EXCEPT ![p] = @ \o r.out]
                      /\ IF r.panicked
                         THEN /\ pc' = [pc EXCEPT ![p] = "panicked"]
                              /\ mutex' = 0
                              /\ pcMain' = "crashed"
                              /\ UNCHANGED frame
                         ELSE /\ pc' = [pc EXCEPT ![p] = "sendUp"]
                              /\ frame' = [frame EXCEPT ![p].up = 1]
                              /\ UNCHANGED <<mutex, pcMain>>
    /\ UNCHANGED <<schema, defaultFields, nginxMetricFields, exporterMetrics,
                   totalScrapes, calls>>

\* The liveness sample sent as 1 whatever scrape returned.
SendUpAlways(p) ==
    /\ pcMain = "serving"
    /\ pc[p] = "sendUp"
    /\ ch' = [ch EXCEPT ![p] = Append(@, [desc |-> nginxUp, value |-> 1, labels |-> <<>>])]
    /\ pc' = [pc EXCEPT ![p] = "sendScrapes"]
    /\ UNCHANGED <<schema, defaultFields, nginxMetricFields, pcMain, exporterMetrics,
                   mutex, totalScrapes, calls, frame>>

\* Line 126: ch <- prometheus.MustNewConstMetric(nginxUp, GaugeValue, up)
SendUp(p) ==
    /\ pcMain = "serving"
    /\ pc[p] = "sendUp"
    /\ ch' = [ch EXCEPT ![p] = SendConstMetric([StartWalk EXCEPT !.out = ch[p]], nginxUp,
                                               frame[p].up, <<>>).out]
    /\ pc' = [pc EXCEPT ![p] = "sendScrapes"]
    /\ UNCHANGED <<schema, defaultFields, nginxMetricFields, pcMain, exporterMetrics,
                   mutex, totalScrapes, calls, frame>>

\* Line 127: ch <- e.totalScrapes, the counter as it stands.
SendTotalScrapes(p) ==
    /\ pcMain = "serving"
    /\ pc[p] = "sendScrapes"
    /\ ch' = [ch EXCEPT ![p] = Append(@, [desc |-> totalScrapesDesc,
                                          value |-> totalScrapes, labels |-> <<>>])]
    /\ pc' = [pc EXCEPT ![p] = "unlock"]
    /\ UNCHANGED <<schema, defaultFields, nginxMetricFields, pcMain, exporterMetrics,
                   mutex, totalScrapes, calls, frame>>

\* Line 123: the deferred e.mutex.Unlock(), and the return: the call's locals
\* and its channel are the caller's from here on.
Unlock(p) ==
    /\ pcMain = "serving"
    /\ pc[p] = "unlock"
    /\ mutex' = 0
    /\ pc' = [pc EXCEPT ![p] = "idle"]
    /\ frame' = [frame EXCEPT ![p] = NoFrame]
    /\ ch' = [ch EXCEPT ![p] = <<>>]
    /\ UNCHANGED <<schema, defaultFields, nginxMetricFields, pcMain, exporterMetrics,
                   totalScrapes, calls>>

(***************************************************************************)
(* Specifications                                                          *)
(***************************************************************************)
\* The exporter under concurrent pulls.
Init ==
    InitWith({<<>>, <<"subscribers_total">>, <<"channels">>})

Next ==
    \/ Main
    \/ \E p \in Collectors : Call(p, MaxCalls)
    \/ \E p \in Collectors : Lock(p)
    \/ \E p \in Collectors : ScrapeFetch(p, FewBodies)
    \/ \E p \in Collectors : ScrapeExtract(p)
    \/ \E p \in Collectors : SendUp(p)
    \/ \E p \in Collectors : SendTotalScrapes(p)
    \/ \E p \in Collectors : Unlock(p)

Spec == Init /\ [][Next]_vars

\* One pull, over every selection of catalog keys and every body.
InitScrape == InitWith(KeySelections \cup OddSelections)

NextScrape ==
    \/ Main
    \/ Call(1, 1)
    \/ Lock(1)
    \/ ScrapeFetch(1, Bodies)
    \/ ScrapeExtract(1)
    \/ SendUp(1)
    \/ SendTotalScrapes(1)
    \/ Unlock(1)

SpecScrape == InitScrape /\ [][NextScrape]_vars

\* Startup alone, over every flag value of up to MaxPieces pieces.
InitFilter == InitWith(PieceStrings)

NextFilter == Main

SpecFilter == InitFilter /\ [][NextFilter]_vars

(***************************************************************************)
(* Properties                                                              *)
(***************************************************************************)
Critical == {"scrape", "decode", "sendUp", "sendScrapes", "unlock"}

\* Collect has sent everything it sends; only the deferred Unlock remains.
Completed(p) == pc[p] = "unlock"

\* scrape is over, by a return or by a panic.
ScrapeOver(p) == pc[p] \in {"sendUp", "sendScrapes", "unlock", "panicked"}

\* Collect is over, by reaching its end or by a panic.
CollectOver(p) == pc[p] \in {"unlock", "panicked"}

\* Scrapes started: calls that have passed line 154.
RECURSIVE SumOver(_, _)
SumOver(f, S) ==
    IF S = {} THEN 0
    ELSE LET x == CHOOSE y \in S : TRUE IN f[x] + SumOver(f, S \ {x})

ScrapesStarted ==
    SumOver([p \in Collectors |->
               IF pc[p] \in {"lock", "scrape"} THEN calls[p] - 1 ELSE calls[p]],
            Collectors)

IsCatalog(x) == x.desc.subsystem = "push_stream"

CatalogSamples(s) == SelectSeq(s, IsCatalog)

Indices(s, d) == {i \in 1..Len(s) : s[i].desc = d}

\* The number a count stands for: itself, or the decimal string's value.
CountOf(v) == IF v.t = "number" THEN v.n ELSE Atoi(v.s).n

IsCount(v) == v.t = "number" \/ ~Atoi(v.s).err

RECURSIVE SumSubscribers(_)
SumSubscribers(infos) ==
    IF infos = <<>> THEN 0
    ELSE (IF IsCount(Head(infos).subscribers) THEN CountOf(Head(infos).subscribers) ELSE 0)
         + SumSubscribers(Tail(infos))

UpSample(v) == [desc |-> nginxUp, value |-> v, labels |-> <<>>]

TotalSample(v) ==
    [desc |-> pushStreamMetrics["subscribers_total"], value |-> v,
     labels |-> << <<"all">> >>]

\* C1 (as claimed, for the int64 build): whenever fetch and decode succeeded,
\* whatever the selection, the scrape has sent exactly one subscribers_total
\* sample, labelled channel="all", whose value is the sum of the subscribers
\* of every entry of infos.
C1_TotalAlwaysSent ==
    \A p \in Collectors :
        (schema = "int64" /\ ScrapeOver(p) /\ ~frame[p].err /\ ~frame[p].jsonError)
        => /\ Cardinality(Indices(ch[p], pushStreamMetrics["subscribers_total"])) = 1
           /\ \E i \in 1..Len(ch[p]) :
                 ch[p][i] = TotalSample(SumSubscribers(frame[p].body.infos))

\* C2: a Collect whose fetch failed, whose body is not JSON, or whose
\* top-level channels is a string in the int64 build, has sent no catalog
\* sample, then the liveness sample 0, then the counter; and every scrape
\* started, failed or not, has added exactly one to the counter.
C2_FailedScrape ==
    /\ totalScrapes = ScrapesStarted
    /\ \A p \in Collectors :
          (Completed(p) /\ (\/ frame[p].err
                            \/ ~frame[p].body.valid
                            \/ schema = "int64" /\ frame[p].body.channels.t = "string"))
          => ch[p] = <<UpSample(0),
                       [desc |-> totalScrapesDesc, value |-> totalScrapes,
                        labels |-> <<>>]>>

C2_Witness ==
    \E p \in Collectors :
        /\ Completed(p)
        /\ schema = "int64"
        /\ ~frame[p].err
        /\ frame[p].body = Object(JStr(<<"not-a-number">>), <<>>)
        /\ totalScrapes = 2
        /\ Len(ch[p]) = 2

\* The body with every count that is a decimal string written as the number.
AsNumbers(body) ==
    LET num(v) == IF v.t = "string" /\ IsCount(v) THEN JNum(CountOf(v)) ELSE v
    IN  [body EXCEPT
           !.channels = num(@),
           !.infos = [j \in 1..Len(@) |->
                        [@[j] EXCEPT !.published_messages = num(@),
                                     !.stored_messages = num(@),
                                     !.subscribers = num(@)]]]

\* What a pull of this binary sends for a body, the keys visited in an order:
\* the catalog samples, and the liveness value (2 when a panic sent none).
Pulled(body, order) ==
    LET d == Decode(schema, body)
        r == ExtractSamples(exporterMetrics, order, d.ps)
    IN  IF d.err THEN [samples |-> {}, n |-> 0, up |-> 0]
        ELSE [samples |-> Range(r.out), n |-> Len(r.out),
              up |-> IF r.panicked THEN 2 ELSE 1]

\* C3 (as claimed, for the default selection): a pull that fetched a body
\* whose counts are all decimal strings ends with liveness 1 and with the
\* catalog samples (keys, labels, values) that the same body with its counts
\* written as numbers gives.
C3_SchemaTransparent ==
    \A p \in Collectors :
        (/\ exporterMetrics = pushStreamMetrics
         /\ CollectOver(p)
         /\ ~frame[p].err
         /\ frame[p].body \in WellFormed("string"))
        => /\ UpSample(1) \in Range(ch[p])
           /\ \E order \in KeyOrders(DOMAIN exporterMetrics) :
                 LET native == Pulled(AsNumbers(frame[p].body), order)
                 IN  /\ native.up = 1
                     /\ Range(CatalogSamples(ch[p])) = native.samples
                     /\ Len(CatalogSamples(ch[p])) = native.n

PerChannelKeys == {"subscribers", "published_messages", "stored_messages"}

\* C4: in the int64 build with the full catalog selected, a scrape of a body
\* whose counts are all numbers has sent one channels sample (channel="all",
\* the top-level count), for each per-channel key one sample per entry of
\* infos in the order of infos (channel = the entry's name, value = the
\* entry's field, entries of one name each giving their own sample), the
\* subscribers_total sample, and nothing else.
C4_FullCatalog ==
    \A p \in Collectors :
        (/\ schema = "int64"
         /\ exporterMetrics = pushStreamMetrics
         /\ ScrapeOver(p)
         /\ ~frame[p].err
         /\ frame[p].body \in WellFormed("number"))
        => LET body == frame[p].body
               sent == CatalogSamples(ch[p])
               of(k) == SelectSeq(sent, LAMBDA x : x.desc = pushStreamMetrics[k])
           IN  /\ of("channels") =
                     <<[desc |-> pushStreamMetrics["channels"],
                        value |-> body.channels.n, labels |-> << <<"all">> >>]>>
               /\ \A k \in PerChannelKeys :
                     of(k) = [j \in 1..Len(body.infos) |->
                                [desc |-> pushStreamMetrics[k],
                                 value |-> body.infos[j][k].n,
                                 labels |-> <<body.infos[j].channel>>]]
               /\ Len(of("subscribers_total")) = 1
               /\ Len(sent) = 2 + 3 * Len(body.infos)

C4_Witness ==
    \E p \in Collectors :
        /\ schema = "int64"
        /\ exporterMetrics = pushStreamMetrics
        /\ Completed(p)
        /\ frame[p].body =
              Object(JNum(MaxVal + MaxInfos + 3),
                     <<Info("number", <<"a">>, 0), Info("number", <<"a">>, MaxVal)>>)
        /\ Len(CatalogSamples(ch[p])) = 8

\* Whether key is one of the comma-separated tokens of the text str.
IsToken(str, key) ==
    \E i \in 1..Len(str) :
        LET j == i + Len(key) - 1
        IN  /\ j <= Len(str)
            /\ SubSeq(str, i, j) = key
            /\ i = 1 \/ str[i - 1] = ","
            /\ j = Len(str) \/ str[j + 1] = ","

\* C5: filterMetrics returns the catalog entries, and only those, whose key
\* is exactly one of the comma-separated tokens of the selection: nothing for
\* the empty string, nothing for a token that is no key, a blank or another
\* case making a token a different one.
C5_FilterExact ==
    pcMain = "serving"
    => /\ DOMAIN exporterMetrics \subseteq CatalogKeys
       /\ \A k \in CatalogKeys :
             (k \in DOMAIN exporterMetrics <=> IsToken(Text(nginxMetricFields), Chars(k)))
       /\ \A k \in DOMAIN exporterMetrics : exporterMetrics[k] = pushStreamMetrics[k]
       /\ (Text(nginxMetricFields) = <<>> => DOMAIN exporterMetrics = {})

C5_Witness ==
    /\ pcMain = "serving"
    /\ nginxMetricFields = <<"bogus_metric", ",", "subscribers">>
    /\ DOMAIN exporterMetrics = {"subscribers"}

\* C6 (as claimed): with the empty selection, a pull whose fetch and decode
\* succeeded ends with no catalog sample sent and the liveness sample sent.
C6_EmptySelection ==
    \A p \in Collectors :
        (/\ Text(nginxMetricFields) = <<>>
         /\ CollectOver(p)
         /\ ~frame[p].err
         /\ ~frame[p].jsonError)
        => /\ CatalogSamples(ch[p]) = <<>>
           /\ \E i \in 1..Len(ch[p]) : ch[p][i].desc = nginxUp

\* C7 (as claimed, for the default selection): a pull that fetched a body in
\* which exactly one entry's subscribers is a string that is no number ends
\* with liveness 1 and a subscribers_total sample equal to the sum over the
\* other entries.
C7_OneBadChannel ==
    \A p \in Collectors :
        (/\ exporterMetrics = pushStreamMetrics
         /\ CollectOver(p)
         /\ ~frame[p].err
         /\ frame[p].body \in OneBadSubscribers("string"))
        => /\ UpSample(1) \in Range(ch[p])
           /\ TotalSample(SumSubscribers(frame[p].body.infos)) \in Range(ch[p])

\* C8: at most one collector is between Lock and Unlock, and it is the one
\* the mutex names; a collector still waiting for the lock has counted no
\* scrape, fetched nothing and sent nothing.
C8_OneScrapeAtATime ==
    /\ Cardinality({p \in Collectors : pc[p] \in Critical}) <= 1
    /\ \A p \in Collectors : pc[p] \in Critical => mutex = p
    /\ \A p \in Collectors :
          pc[p] = "lock" => ch[p] = <<>> /\ frame[p] = NoFrame
    /\ totalScrapes = ScrapesStarted

C8_Witness ==
    \E p, q \in Collectors :
        /\ p # q
        /\ pc[p] = "sendScrapes"
        /\ pc[q] = "lock"
        /\ calls[q] = 2

\* C9: the flag's default is the five keys in ascending order joined by
\* commas, each once, and started with it the exporter holds the full catalog.
C9_DefaultSelectsAll ==
    /\ Text(defaultFields) =
          Chars("channels") \o <<",">> \o Chars("published_messages") \o <<",">>
          \o Chars("stored_messages") \o <<",">> \o Chars("subscribers") \o <<",">>
          \o Chars("subscribers_total")
    /\ (pcMain = "serving" /\ Text(nginxMetricFields) = Text(defaultFields))
       => exporterMetrics = pushStreamMetrics

C9_Witness ==
    /\ pcMain = "serving"
    /\ nginxMetricFields = defaultFields
    /\ Cardinality(DOMAIN exporterMetrics) = 5

\* What a Collect that ran to its end has sent: catalog samples, then one
\* liveness sample, then one counter sample; liveness 1 exactly when neither
\* fetch nor decode failed; the counter sample is the number of scrapes
\* started.
CollectSent(p) ==
    LET n == Len(ch[p])
    IN  /\ n >= 2
        /\ \A i \in 1..(n - 2) : IsCatalog(ch[p][i])
        /\ ch[p][n - 1] =
              UpSample(IF ~frame[p].err /\ Decode(schema, frame[p].body).err = FALSE
                       THEN 1 ELSE 0)
        /\ ch[p][n] = [desc |-> totalScrapesDesc, value |-> ScrapesStarted,
                       labels |-> <<>>]

\* C10: every Collect that ran to its end sent exactly one liveness sample and
\* then exactly one counter sample, after all its catalog samples, with
\* liveness 1 exactly when fetch and decode succeeded; the counter is the
\* number of scrapes started and never decreases.
C10_LivenessAndCounter ==
    /\ [](totalScrapes = ScrapesStarted /\ \A p \in Collectors : Completed(p) => CollectSent(p))
    /\ [][totalScrapes' >= totalScrapes]_vars

C10_Witness ==
    \E p \in Collectors :
        /\ Completed(p)
        /\ calls[p] = 2
        /\ totalScrapes = 3
        /\ Len(ch[p]) = 3
        /\ ch[p][2] = UpSample(1)

====
